---------------------------- MODULE Spec2Model ----------------------------
(***************************************************************************)
(* A model of PALETTE (main.c): the voltage tables, the palette generator, *)
(* the bounded colour list and the GPL and TGA writers.                    *)
(*                                                                         *)
(* The program computes in IEEE-754 single precision (the build evaluates  *)
(* float expressions in float, FLT_EVAL_METHOD = 0).  A float is modelled  *)
(* as a record [s, m, e] of value (-1)^s * m * 2^e with 2^23 <= m < 2^24,  *)
(* or m = 0 for zero; every operation rounds to nearest, ties to even, as  *)
(* the hardware does.  TLC's integers are 32 bits wide, so products are    *)
(* formed in 12-bit limbs.                                                 *)
(***************************************************************************)
EXTENDS Integers, Sequences, FiniteSets

(***************************************************************************)
(* Single-precision arithmetic.                                            *)
(***************************************************************************)
Pow2Tab ==
  << 1, 2, 4, 8, 16, 32, 64, 128, 256, 512, 1024, 2048, 4096, 8192, 16384,
     32768, 65536, 131072, 262144, 524288, 1048576, 2097152, 4194304,
     8388608, 16777216, 33554432, 67108864, 134217728, 268435456,
     536870912, 1073741824 >>

Pow2(n) == Pow2Tab[n + 1]

RECURSIVE BitLen(_)
BitLen(n) == IF n = 0 THEN 0 ELSE 1 + BitLen(n \div 2)

FZero == [s |-> 0, m |-> 0, e |-> 0]

\* m * 2^e with 2^23 <= m <= 2^24: the carry out of a rounding is renormalised
FPack(s, m, e) ==
  IF m = Pow2(24) THEN [s |-> s, m |-> Pow2(23), e |-> e + 1]
  ELSE [s |-> s, m |-> m, e |-> e]

\* round to nearest, ties to even: m is the kept part, rem the dropped part
RoundEven(m, rem, half) ==
  IF rem > half \/ (rem = half /\ m % 2 = 1) THEN m + 1 ELSE m

\* the float nearest to (-1)^s * R * 2^E, for an integer 0 <= R < 2^30
FRound(s, R, E) ==
  LET n == BitLen(R)
  IN  IF R = 0 THEN FZero
      ELSE IF n <= 24 THEN [s |-> s, m |-> R * Pow2(24 - n), e |-> E - (24 - n)]
      ELSE LET drop == n - 24
               m    == RoundEven(R \div Pow2(drop), R % Pow2(drop), Pow2(drop - 1))
           IN  FPack(s, m, E + drop)

\* (float) n for an int 0 <= n < 2^24: exact
IntToFloat(n) == FRound(0, n, 0)

FNeg(a) == IF a.m = 0 THEN a ELSE [a EXCEPT !.s = 1 - a.s]

\* a + b: the smaller operand is aligned with two guard bits and a sticky bit
FAdd(a, b) ==
  IF a.m = 0 THEN b
  ELSE IF b.m = 0 THEN a
  ELSE LET x  == IF a.e >= b.e THEN a ELSE b
           y  == IF a.e >= b.e THEN b ELSE a
           d  == x.e - y.e
           X  == x.m * 8
           Y8 == y.m * 8
           Yq == IF d >= 27 THEN 0 ELSE Y8 \div Pow2(d)
           Ys == IF d >= 27 THEN TRUE ELSE Y8 % Pow2(d) # 0
           Y  == IF Ys /\ Yq % 2 = 0 THEN Yq + 1 ELSE Yq
       IN  IF x.s = y.s THEN FRound(x.s, X + Y, x.e - 3)
           ELSE IF X >= Y THEN FRound(x.s, X - Y, x.e - 3)
           ELSE FRound(y.s, Y - X, x.e - 3)

FSub(a, b) == FAdd(a, FNeg(b))

\* a * b: the 48-bit product hi * 2^24 + lo of the two 24-bit mantissas
FMul(a, b) ==
  IF a.m = 0 \/ b.m = 0 THEN FZero
  ELSE LET ah  == a.m \div 4096
           al  == a.m % 4096
           bh  == b.m \div 4096
           bl  == b.m % 4096
           mid == ah * bl + al * bh
           los == (mid % 4096) * 4096 + al * bl
           hi  == ah * bh + mid \div 4096 + los \div Pow2(24)
           lo  == los % Pow2(24)
           s   == (a.s + b.s) % 2
       IN  IF hi >= Pow2(23)
           THEN FPack(s, RoundEven(hi, lo, Pow2(23)), a.e + b.e + 24)
           ELSE FPack(s, RoundEven(2 * hi + lo \div Pow2(23), lo % Pow2(23), Pow2(22)),
                      a.e + b.e + 23)

\* (int) a: truncation toward zero, for |a| < 2^24
FloatToInt(a) ==
  LET mag == IF a.m = 0 THEN 0
             ELSE IF a.e >= 0 THEN a.m * Pow2(a.e)
             ELSE IF -a.e >= 24 THEN 0
             ELSE a.m \div Pow2(-a.e)
  IN  IF a.s = 1 THEN -mag ELSE mag

(***************************************************************************)
(* float * double, as in  i = S_saturation_table[k] * cos(...): the float  *)
(* is promoted, the product is rounded to double (53 bits) and the         *)
(* assignment to a float rounds it again to 24 bits.  A double is a record *)
(* [s, e, c]: c holds the 53-bit mantissa in five 12-bit limbs, lowest     *)
(* first, of value (-1)^s * mantissa * 2^e; the zero double has c[5] = 0.  *)
(***************************************************************************)
\* the base-4096 digits of the limb sums p[j], p[j+1], ... (lowest first) with
\* the carry coming in, and the last carry as the top digit
RECURSIVE CarryFrom(_, _, _)
CarryFrom(p, j, carry) ==
  IF j > Len(p) THEN << carry >>
  ELSE << (p[j] + carry) % 4096 >> \o CarryFrom(p, j + 1, (p[j] + carry) \div 4096)

Carry(p) == CarryFrom(p, 1, 0)

\* the limb sums of the product of a 24-bit mantissa m and the limbs c
LimbProducts(m, c) ==
  << (m % 4096) * c[1],
     (m % 4096) * c[2] + (m \div 4096) * c[1],
     (m % 4096) * c[3] + (m \div 4096) * c[2],
     (m % 4096) * c[4] + (m \div 4096) * c[3],
     (m % 4096) * c[5] + (m \div 4096) * c[4],
     (m \div 4096) * c[5] >>

\* the product as seven digits q with 2^76 <= q < 2^77: doubled (dbl = 1) when
\* it is below 2^76
Product77(p) ==
  IF Carry(p)[7] < 16
  THEN [q |-> Carry(<< 2 * p[1], 2 * p[2], 2 * p[3], 2 * p[4], 2 * p[5], 2 * p[6] >>),
        dbl |-> 1]
  ELSE [q |-> Carry(p), dbl |-> 0]

\* a 53-bit mantissa r that a rounding carried up to 2^53 is 2^52, one exponent up
Normalize53(r) ==
  IF r[5] = 32 THEN [c |-> << 0, 0, 0, 0, 16 >>, x |-> 1]
  ELSE [c |-> << r[1], r[2], r[3], r[4], r[5] >>, x |-> 0]

\* the 77-bit product q rounded to a double: the low 24 bits (two digits) go
RoundDouble(q) ==
  IF \/ q[2] * 4096 + q[1] > Pow2(23)
     \/ (q[2] * 4096 + q[1] = Pow2(23) /\ q[3] % 2 = 1)
  THEN Normalize53(Carry(<< q[3] + 1, q[4], q[5], q[6], q[7] >>))
  ELSE Normalize53(<< q[3], q[4], q[5], q[6], q[7] >>)

\* the double D.c * 2^e rounded to a float: the low 29 bits go
DoubleToFloat(s, D, e) ==
  LET m   == D.c[5] * Pow2(19) + D.c[4] * 128 + D.c[3] \div 32
      r5  == D.c[3] % 32
      low == D.c[2] # 0 \/ D.c[1] # 0
  IN  FPack(s, IF r5 > 16 \/ (r5 = 16 /\ (low \/ m % 2 = 1)) THEN m + 1 ELSE m, e + 29)

FMulDoubleRounded(a, dd, P, D) ==
  DoubleToFloat((a.s + dd.s) % 2, D, a.e + dd.e + 24 + D.x - P.dbl)

FMulDoubleProduct(a, dd, P) == FMulDoubleRounded(a, dd, P, RoundDouble(P.q))

FMulDouble(a, dd) ==
  IF a.m = 0 \/ dd.c[5] = 0 THEN FZero
  ELSE FMulDoubleProduct(a, dd, Product77(LimbProducts(a.m, dd.c)))

\* cos(TWO_PI * hue / 360.0f) and sin(TWO_PI * hue / 360.0f) as the C library
\* returns them (doubles), for the hues the program uses: the multiples of 5
\* degrees in [0, 360).  Entry hue \div 5 + 1 is the value for hue.
CosTable ==
  << [s |-> 0, e |-> -52, c |-> <<0, 0, 0, 0, 16>>]  \* hue 0
   , [s |-> 0, e |-> -53, c |-> <<3860, 3539, 947, 3597, 31>>]  \* hue 5
   , [s |-> 0, e |-> -53, c |-> <<1828, 2410, 2955, 2104, 31>>]  \* hue 10
   , [s |-> 0, e |-> -53, c |-> <<2292, 1113, 3398, 3725, 30>>]  \* hue 15
   , [s |-> 0, e |-> -53, c |-> <<2232, 2921, 1598, 287, 30>>]  \* hue 20
   , [s |-> 0, e |-> -53, c |-> <<2107, 2777, 2351, 7, 29>>]  \* hue 25
   , [s |-> 0, e |-> -53, c |-> <<1628, 1776, 2788, 2919, 27>>]  \* hue 30
   , [s |-> 0, e |-> -53, c |-> <<3129, 2511, 3655, 871, 26>>]  \* hue 35
   , [s |-> 0, e |-> -53, c |-> <<2587, 1020, 3989, 2102, 24>>]  \* hue 40
   , [s |-> 0, e |-> -53, c |-> <<1432, 819, 3678, 2569, 22>>]  \* hue 45
   , [s |-> 0, e |-> -53, c |-> <<2439, 1714, 1872, 2331, 20>>]  \* hue 50
   , [s |-> 0, e |-> -53, c |-> <<64, 873, 3326, 1451, 18>>]  \* hue 55
   , [s |-> 0, e |-> -54, c |-> <<1862, 3695, 4068, 4095, 31>>]  \* hue 60
   , [s |-> 0, e |-> -54, c |-> <<148, 3401, 3435, 194, 27>>]  \* hue 65
   , [s |-> 0, e |-> -54, c |-> <<271, 200, 2050, 3642, 21>>]  \* hue 70
   , [s |-> 0, e |-> -54, c |-> <<2554, 3995, 3421, 2311, 16>>]  \* hue 75
   , [s |-> 0, e |-> -55, c |-> <<3219, 3423, 2519, 929, 22>>]  \* hue 80
   , [s |-> 0, e |-> -56, c |-> <<1047, 690, 1969, 1277, 22>>]  \* hue 85
   , [s |-> 1, e |-> -77, c |-> <<3788, 1836, 1487, 1914, 23>>]  \* hue 90
   , [s |-> 1, e |-> -56, c |-> <<2697, 891, 2343, 1277, 22>>]  \* hue 95
   , [s |-> 1, e |-> -55, c |-> <<730, 2960, 2704, 929, 22>>]  \* hue 100
   , [s |-> 1, e |-> -54, c |-> <<957, 1167, 3636, 2311, 16>>]  \* hue 105
   , [s |-> 1, e |-> -54, c |-> <<4001, 1053, 2138, 3642, 21>>]  \* hue 110
   , [s |-> 1, e |-> -54, c |-> <<3342, 3706, 3520, 194, 27>>]  \* hue 115
   , [s |-> 1, e |-> -53, c |-> <<2223, 400, 27, 0, 16>>]  \* hue 120
   , [s |-> 1, e |-> -53, c |-> <<3188, 1830, 3338, 1451, 18>>]  \* hue 125
   , [s |-> 1, e |-> -53, c |-> <<2548, 3519, 1883, 2331, 20>>]  \* hue 130
   , [s |-> 1, e |-> -53, c |-> <<4094, 3114, 3688, 2569, 22>>]  \* hue 135
   , [s |-> 1, e |-> -53, c |-> <<2009, 515, 4081, 2102, 24>>]  \* hue 140
   , [s |-> 1, e |-> -53, c |-> <<1, 735, 3664, 871, 26>>]  \* hue 145
   , [s |-> 1, e |-> -53, c |-> <<2973, 3690, 2843, 2919, 27>>]  \* hue 150
   , [s |-> 1, e |-> -53, c |-> <<371, 2884, 2337, 7, 29>>]  \* hue 155
   , [s |-> 1, e |-> -53, c |-> <<4034, 748, 1631, 287, 30>>]  \* hue 160
   , [s |-> 1, e |-> -53, c |-> <<267, 2874, 3418, 3725, 30>>]  \* hue 165
   , [s |-> 1, e |-> -53, c |-> <<135, 2782, 2945, 2104, 31>>]  \* hue 170
   , [s |-> 1, e |-> -53, c |-> <<169, 3, 953, 3597, 31>>]  \* hue 175
   , [s |-> 1, e |-> -53, c |-> <<4062, 4095, 4095, 4095, 31>>]  \* hue 180
   , [s |-> 1, e |-> -53, c |-> <<2393, 3356, 944, 3597, 31>>]  \* hue 185
   , [s |-> 1, e |-> -53, c |-> <<258, 1552, 2929, 2104, 31>>]  \* hue 190
   , [s |-> 1, e |-> -53, c |-> <<385, 1137, 3361, 3725, 30>>]  \* hue 195
   , [s |-> 1, e |-> -53, c |-> <<3574, 317, 1599, 287, 30>>]  \* hue 200
   , [s |-> 1, e |-> -53, c |-> <<2104, 525, 2352, 7, 29>>]  \* hue 205
   , [s |-> 1, e |-> -53, c |-> <<4047, 3957, 2732, 2919, 27>>]  \* hue 210
   , [s |-> 1, e |-> -53, c |-> <<3578, 1384, 3610, 871, 26>>]  \* hue 215
   , [s |-> 1, e |-> -53, c |-> <<1947, 3226, 4020, 2102, 24>>]  \* hue 220
   , [s |-> 1, e |-> -53, c |-> <<2035, 3663, 3712, 2569, 22>>]  \* hue 225
   , [s |-> 1, e |-> -53, c |-> <<2448, 3895, 1811, 2331, 20>>]  \* hue 230
   , [s |-> 1, e |-> -53, c |-> <<1831, 2267, 3261, 1451, 18>>]  \* hue 235
   , [s |-> 1, e |-> -54, c |-> <<3306, 2493, 3987, 4095, 31>>]  \* hue 240
   , [s |-> 1, e |-> -54, c |-> <<992, 3095, 3350, 194, 27>>]  \* hue 245
   , [s |-> 1, e |-> -54, c |-> <<3008, 495, 2082, 3642, 21>>]  \* hue 250
   , [s |-> 1, e |-> -54, c |-> <<2678, 3862, 3454, 2311, 16>>]  \* hue 255
   , [s |-> 1, e |-> -55, c |-> <<720, 245, 2587, 929, 22>>]  \* hue 260
   , [s |-> 1, e |-> -56, c |-> <<3445, 488, 1595, 1277, 22>>]  \* hue 265
   , [s |-> 0, e |-> -79, c |-> <<429, 1563, 1465, 2492, 25>>]  \* hue 270
   , [s |-> 0, e |-> -56, c |-> <<2803, 669, 1697, 1277, 22>>]  \* hue 275
   , [s |-> 0, e |-> -55, c |-> <<2998, 3857, 3645, 929, 22>>]  \* hue 280
   , [s |-> 0, e |-> -54, c |-> <<260, 954, 3974, 2311, 16>>]  \* hue 285
   , [s |-> 0, e |-> -54, c |-> <<1275, 758, 2106, 3642, 21>>]  \* hue 290
   , [s |-> 0, e |-> -54, c |-> <<28, 3952, 3373, 194, 27>>]  \* hue 295
   , [s |-> 0, e |-> -53, c |-> <<29, 2440, 178, 0, 16>>]  \* hue 300
   , [s |-> 0, e |-> -53, c |-> <<3859, 3051, 3481, 1451, 18>>]  \* hue 305
   , [s |-> 0, e |-> -53, c |-> <<2893, 3111, 1821, 2331, 20>>]  \* hue 310
   , [s |-> 0, e |-> -53, c |-> <<3821, 1796, 3631, 2569, 22>>]  \* hue 315
   , [s |-> 0, e |-> -53, c |-> <<4009, 1207, 15, 2103, 24>>]  \* hue 320
   , [s |-> 0, e |-> -53, c |-> <<857, 2121, 3764, 871, 26>>]  \* hue 325
   , [s |-> 0, e |-> -53, c |-> <<203, 1509, 2867, 2919, 27>>]  \* hue 330
   , [s |-> 0, e |-> -53, c |-> <<3446, 2599, 2411, 7, 29>>]  \* hue 335
   , [s |-> 0, e |-> -53, c |-> <<1679, 2778, 1559, 287, 30>>]  \* hue 340
   , [s |-> 0, e |-> -53, c |-> <<2571, 3478, 3430, 3725, 30>>]  \* hue 345
   , [s |-> 0, e |-> -53, c |-> <<2466, 230, 2976, 2104, 31>>]  \* hue 350
   , [s |-> 0, e |-> -53, c |-> <<3180, 3192, 934, 3597, 31>>]  \* hue 355
  >>
SinTable ==
  << [s |-> 0, e |-> 0, c |-> <<0, 0, 0, 0, 0>>]  \* hue 0
   , [s |-> 0, e |-> -56, c |-> <<3921, 3178, 1741, 1277, 22>>]  \* hue 5
   , [s |-> 0, e |-> -55, c |-> <<614, 3362, 2706, 929, 22>>]  \* hue 10
   , [s |-> 0, e |-> -54, c |-> <<1780, 533, 3529, 2311, 16>>]  \* hue 15
   , [s |-> 0, e |-> -54, c |-> <<819, 1489, 2184, 3642, 21>>]  \* hue 20
   , [s |-> 0, e |-> -54, c |-> <<1452, 1498, 3449, 194, 27>>]  \* hue 25
   , [s |-> 0, e |-> -53, c |-> <<557, 3172, 6, 0, 16>>]  \* hue 30
   , [s |-> 0, e |-> -53, c |-> <<3457, 1787, 3345, 1451, 18>>]  \* hue 35
   , [s |-> 0, e |-> -53, c |-> <<2443, 1620, 1890, 2331, 20>>]  \* hue 40
   , [s |-> 0, e |-> -53, c |-> <<510, 3252, 3694, 2569, 22>>]  \* hue 45
   , [s |-> 0, e |-> -53, c |-> <<3674, 1366, 4004, 2102, 24>>]  \* hue 50
   , [s |-> 0, e |-> -53, c |-> <<1184, 301, 3669, 871, 26>>]  \* hue 55
   , [s |-> 0, e |-> -53, c |-> <<2370, 685, 2800, 2919, 27>>]  \* hue 60
   , [s |-> 0, e |-> -53, c |-> <<3563, 3415, 2354, 7, 29>>]  \* hue 65
   , [s |-> 0, e |-> -53, c |-> <<872, 641, 1623, 287, 30>>]  \* hue 70
   , [s |-> 0, e |-> -53, c |-> <<3186, 2571, 3412, 3725, 30>>]  \* hue 75
   , [s |-> 0, e |-> -53, c |-> <<915, 3404, 2963, 2104, 31>>]  \* hue 80
   , [s |-> 0, e |-> -53, c |-> <<322, 1546, 945, 3597, 31>>]  \* hue 85
   , [s |-> 0, e |-> -53, c |-> <<4087, 4095, 4095, 4095, 31>>]  \* hue 90
   , [s |-> 0, e |-> -53, c |-> <<3388, 1174, 941, 3597, 31>>]  \* hue 95
   , [s |-> 0, e |-> -53, c |-> <<1162, 2789, 2955, 2104, 31>>]  \* hue 100
   , [s |-> 0, e |-> -53, c |-> <<1304, 3751, 3383, 3725, 30>>]  \* hue 105
   , [s |-> 0, e |-> -53, c |-> <<2689, 425, 1607, 287, 30>>]  \* hue 110
   , [s |-> 0, e |-> -53, c |-> <<3000, 4089, 2334, 7, 29>>]  \* hue 115
   , [s |-> 0, e |-> -53, c |-> <<872, 2867, 2776, 2919, 27>>]  \* hue 120
   , [s |-> 0, e |-> -53, c |-> <<219, 2078, 3660, 871, 26>>]  \* hue 125
   , [s |-> 0, e |-> -53, c |-> <<3383, 3005, 3994, 2102, 24>>]  \* hue 130
   , [s |-> 0, e |-> -53, c |-> <<1947, 956, 3684, 2569, 22>>]  \* hue 135
   , [s |-> 0, e |-> -53, c |-> <<2561, 3691, 1780, 2331, 20>>]  \* hue 140
   , [s |-> 0, e |-> -53, c |-> <<334, 830, 3333, 1451, 18>>]  \* hue 145
   , [s |-> 0, e |-> -54, c |-> <<3569, 1655, 3917, 4095, 31>>]  \* hue 150
   , [s |-> 0, e |-> -54, c |-> <<1790, 1230, 3509, 194, 27>>]  \* hue 155
   , [s |-> 0, e |-> -54, c |-> <<437, 3869, 2005, 3642, 21>>]  \* hue 160
   , [s |-> 0, e |-> -54, c |-> <<1931, 2621, 3376, 2311, 16>>]  \* hue 165
   , [s |-> 0, e |-> -55, c |-> <<554, 2515, 2931, 929, 22>>]  \* hue 170
   , [s |-> 0, e |-> -56, c |-> <<3433, 377, 1272, 1277, 22>>]  \* hue 175
   , [s |-> 1, e |-> -76, c |-> <<3782, 1836, 1487, 1914, 23>>]  \* hue 180
   , [s |-> 1, e |-> -56, c |-> <<2768, 780, 2020, 1277, 22>>]  \* hue 185
   , [s |-> 1, e |-> -55, c |-> <<3508, 1587, 3301, 929, 22>>]  \* hue 190
   , [s |-> 1, e |-> -54, c |-> <<2718, 1060, 3805, 2311, 16>>]  \* hue 195
   , [s |-> 1, e |-> -54, c |-> <<3800, 1480, 2182, 3642, 21>>]  \* hue 200
   , [s |-> 1, e |-> -54, c |-> <<1707, 1781, 3447, 194, 27>>]  \* hue 205
   , [s |-> 1, e |-> -53, c |-> <<1185, 3468, 102, 0, 16>>]  \* hue 210
   , [s |-> 1, e |-> -53, c |-> <<1544, 393, 3410, 1451, 18>>]  \* hue 215
   , [s |-> 1, e |-> -53, c |-> <<2737, 3315, 1852, 2331, 20>>]  \* hue 220
   , [s |-> 1, e |-> -53, c |-> <<3976, 407, 3660, 2569, 22>>]  \* hue 225
   , [s |-> 1, e |-> -53, c |-> <<3536, 294, 4055, 2102, 24>>]  \* hue 230
   , [s |-> 1, e |-> -53, c |-> <<527, 1428, 3714, 871, 26>>]  \* hue 235
   , [s |-> 1, e |-> -53, c |-> <<3807, 2599, 2823, 2919, 27>>]  \* hue 240
   , [s |-> 1, e |-> -53, c |-> <<4065, 2741, 2374, 7, 29>>]  \* hue 245
   , [s |-> 1, e |-> -53, c |-> <<1063, 1310, 1617, 287, 30>>]  \* hue 250
   , [s |-> 1, e |-> -53, c |-> <<2130, 864, 3408, 3725, 30>>]  \* hue 255
   , [s |-> 1, e |-> -53, c |-> <<1418, 3554, 2960, 2104, 31>>]  \* hue 260
   , [s |-> 1, e |-> -53, c |-> <<1283, 1917, 949, 3597, 31>>]  \* hue 265
   , [s |-> 1, e |-> -53, c |-> <<4095, 4095, 4095, 4095, 31>>]  \* hue 270
   , [s |-> 1, e |-> -53, c |-> <<1346, 1442, 948, 3597, 31>>]  \* hue 275
   , [s |-> 1, e |-> -53, c |-> <<2583, 779, 2914, 2104, 31>>]  \* hue 280
   , [s |-> 1, e |-> -53, c |-> <<3330, 2618, 3338, 3725, 30>>]  \* hue 285
   , [s |-> 1, e |-> -53, c |-> <<2513, 3852, 1612, 287, 30>>]  \* hue 290
   , [s |-> 1, e |-> -53, c |-> <<1162, 1057, 2369, 7, 29>>]  \* hue 295
   , [s |-> 1, e |-> -53, c |-> <<2919, 952, 2689, 2919, 27>>]  \* hue 300
   , [s |-> 1, e |-> -53, c |-> <<2646, 691, 3560, 871, 26>>]  \* hue 305
   , [s |-> 1, e |-> -53, c |-> <<471, 3447, 4046, 2102, 24>>]  \* hue 310
   , [s |-> 1, e |-> -53, c |-> <<2086, 2274, 3741, 2569, 22>>]  \* hue 315
   , [s |-> 1, e |-> -53, c |-> <<2406, 3879, 1744, 2331, 20>>]  \* hue 320
   , [s |-> 1, e |-> -53, c |-> <<3191, 3704, 3189, 1451, 18>>]  \* hue 325
   , [s |-> 1, e |-> -54, c |-> <<789, 454, 3836, 4095, 31>>]  \* hue 330
   , [s |-> 1, e |-> -54, c |-> <<4088, 863, 3192, 194, 27>>]  \* hue 335
   , [s |-> 1, e |-> -54, c |-> <<1812, 3517, 2398, 3642, 21>>]  \* hue 340
   , [s |-> 1, e |-> -54, c |-> <<660, 3969, 3285, 2311, 16>>]  \* hue 345
   , [s |-> 1, e |-> -55, c |-> <<719, 2071, 2242, 929, 22>>]  \* hue 350
   , [s |-> 1, e |-> -56, c |-> <<745, 1023, 2938, 1277, 22>>]  \* hue 355
  >>

Cos(hue) == CosTable[hue \div 5 + 1]

Sin(hue) == SinTable[hue \div 5 + 1]

(***************************************************************************)
(* Program constants.                                                      *)
(***************************************************************************)
SOURCE_APPROX_NES == 0
SOURCE_APPROX_NES_ROTATED == 1
SOURCE_COMPOSITE_06_0p75X == 2
SOURCE_COMPOSITE_06_3X == 3
SOURCE_COMPOSITE_12_1p50X == 4
SOURCE_COMPOSITE_12_6X == 5
SOURCE_COMPOSITE_18_1X == 6
SOURCE_COMPOSITE_24_0p75X == 7
SOURCE_COMPOSITE_24_3X == 8
SOURCE_COMPOSITE_36_2X == 9
SOURCE_COMPOSITE_48_1p50X == 10

Sources == SOURCE_APPROX_NES .. SOURCE_COMPOSITE_48_1p50X

HUE_MODIFIER_FULL == 0
HUE_MODIFIER_LOWER_HALF == 1
HUE_MODIFIER_UPPER_HALF == 2

\* the float literals of the source, as the compiler rounds them
COMPOSITE_06_TABLE_STEP == [s |-> 0, m |-> 8388608, e |-> -26]
COMPOSITE_12_TABLE_STEP == [s |-> 0, m |-> 9586981, e |-> -27]
COMPOSITE_18_TABLE_STEP == [s |-> 0, m |-> 13421773, e |-> -28]
COMPOSITE_24_TABLE_STEP == [s |-> 0, m |-> 10324441, e |-> -28]
COMPOSITE_36_TABLE_STEP == [s |-> 0, m |-> 14128182, e |-> -29]
COMPOSITE_48_TABLE_STEP == [s |-> 0, m |-> 10737418, e |-> -29]

\* {0.2f, 0.35f, 0.65f, 0.85f} and {0.2f, 0.35f, 0.35f, 0.15f}
S_approx_nes_lum ==
  << [s |-> 0, m |-> 13421773, e |-> -26], [s |-> 0, m |-> 11744051, e |-> -25],
     [s |-> 0, m |-> 10905190, e |-> -24], [s |-> 0, m |-> 14260634, e |-> -24] >>

S_approx_nes_sat ==
  << [s |-> 0, m |-> 13421773, e |-> -26], [s |-> 0, m |-> 11744051, e |-> -25],
     [s |-> 0, m |-> 11744051, e |-> -25], [s |-> 0, m |-> 10066330, e |-> -26] >>

F_1p0 == [s |-> 0, m |-> 8388608, e |-> -23]
F_0p5 == [s |-> 0, m |-> 8388608, e |-> -24]
F_0p956 == [s |-> 0, m |-> 16039018, e |-> -24]
F_0p619 == [s |-> 0, m |-> 10385097, e |-> -24]
F_0p272 == [s |-> 0, m |-> 9126806, e |-> -25]
F_0p647 == [s |-> 0, m |-> 10854859, e |-> -24]
F_1p106 == [s |-> 0, m |-> 9277800, e |-> -23]
F_1p703 == [s |-> 0, m |-> 14285799, e |-> -23]

\* the twelve composite arrays, by name, with their lengths
CompositeLength ==
  [ S_composite_06_lum |-> 6,  S_composite_06_sat |-> 6,
    S_composite_12_lum |-> 12, S_composite_12_sat |-> 12,
    S_composite_18_lum |-> 18, S_composite_18_sat |-> 18,
    S_composite_24_lum |-> 24, S_composite_24_sat |-> 24,
    S_composite_36_lum |-> 36, S_composite_36_sat |-> 36,
    S_composite_48_lum |-> 48, S_composite_48_sat |-> 48 ]

\* an entry of the malloc'ed array that no add_color has stored yet
Indeterminate == [r |-> -1, g |-> -1, b |-> -1]

NULL == << >>

VARIABLES
  pc,                 \* the position in main (or in the function main has called)
  S_composite,        \* the composite voltage arrays, by name
  G_colors_array,     \* the malloc'ed array (NULL before malloc and after free)
  G_num_colors,
  G_max_colors,
  G_source,
  S_luma_table,       \* the name of the array the pointer points to
  S_saturation_table,
  S_table_length,
  step, hue, i,       \* locals of generate_palette_from_source
  k, end_index,       \* locals of generate_palette_greys / generate_palette_hue
  call,               \* the last call of add_color / a writer, and its arguments
  ret,                \* the last value each function returned
  oob,                \* a store fell outside G_colors_array
  gpl_file,           \* [exists, lines]: the .gpl file
  tga_file,           \* [exists, bytes]: the .tga file
  ncalls,             \* calls made by the function-level driver (SpecUnit)
  env                 \* what the environment did in the last writer calls:
                      \* [gpl_opened, tga_fault]

vars ==
  << pc, S_composite, G_colors_array, G_num_colors, G_max_colors, G_source,
     S_luma_table, S_saturation_table, S_table_length, step, hue, i, k,
     end_index, call, ret, oob, gpl_file, tga_file, ncalls, env >>

NoReturns ==
  [add_color |-> 0, generate_palette_hue |-> 0, write_gpl_file |-> 0, write_tga_file |-> 0]

NoCall == [fn |-> "none", r |-> 0, g |-> 0, b |-> 0]

Call(fn, r, g, b) == [fn |-> fn, r |-> r, g |-> g, b |-> b]

NoFault == [call |-> 0, items |-> 0]

OpenFails == [call |-> -1, items |-> 0]

NoFileGpl == [exists |-> FALSE, lines |-> << >>]

NoFileTga == [exists |-> FALSE, bytes |-> << >>]

\* the array a table pointer points to
Deref(p) ==
  IF p = "S_approx_nes_lum" THEN S_approx_nes_lum
  ELSE IF p = "S_approx_nes_sat" THEN S_approx_nes_sat
  ELSE S_composite[p]

(***************************************************************************)
(* generate_voltage_tables                                                 *)
(***************************************************************************)
\* the loop of one table ending one iteration early:  k < n / 2 - 1
RECURSIVE VoltageLoopShort(_, _, _, _, _)
VoltageLoopShort(lum, sat, n, tstep, j) ==
  IF j >= (n \div 2) - 1 THEN [lum |-> lum, sat |-> sat]
  ELSE LET l1 == [lum EXCEPT ![j + 1] = FMul(IntToFloat(j + 1), tstep)]
           l2 == [l1 EXCEPT ![n - j] = FSub(F_1p0, l1[j + 1])]
           s1 == [sat EXCEPT ![j + 1] = l2[j + 1]]
           s2 == [s1 EXCEPT ![n - j] = s1[j + 1]]
       IN  VoltageLoopShort(l2, s2, n, tstep, j + 1)

\* iterations j, j+1, ... of one table's loop  for (k = j; k < n / 2; k++)
RECURSIVE VoltageLoop(_, _, _, _, _)
VoltageLoop(lum, sat, n, tstep, j) ==
  IF j >= n \div 2 THEN [lum |-> lum, sat |-> sat]
  ELSE LET l1 == [lum EXCEPT ![j + 1] = FMul(IntToFloat(j + 1), tstep)]
           l2 == [l1 EXCEPT ![n - j] = FSub(F_1p0, l1[j + 1])]
           s1 == [sat EXCEPT ![j + 1] = l2[j + 1]]
           s2 == [s1 EXCEPT ![n - j] = s1[j + 1]]
       IN  VoltageLoop(l2, s2, n, tstep, j + 1)

\* static arrays start zeroed
ZeroTable(n) == [j \in 1..n |-> FZero]

TableStep(n) ==
  CASE n = 6  -> COMPOSITE_06_TABLE_STEP
    [] n = 12 -> COMPOSITE_12_TABLE_STEP
    [] n = 18 -> COMPOSITE_18_TABLE_STEP
    [] n = 24 -> COMPOSITE_24_TABLE_STEP
    [] n = 36 -> COMPOSITE_36_TABLE_STEP
    [] n = 48 -> COMPOSITE_48_TABLE_STEP

IsLum(name) == name \in { "S_composite_06_lum", "S_composite_12_lum", "S_composite_18_lum",
                          "S_composite_24_lum", "S_composite_36_lum", "S_composite_48_lum" }

generate_voltage_tables(mem) ==
  [ name \in DOMAIN mem |->
      LET n == CompositeLength[name]
          lumName == CHOOSE x \in DOMAIN mem : IsLum(x) /\ CompositeLength[x] = n
          satName == CHOOSE x \in DOMAIN mem : ~IsLum(x) /\ CompositeLength[x] = n
          t == VoltageLoop(mem[lumName], mem[satName], n, TableStep(n), 0)
      IN  IF IsLum(name) THEN t.lum ELSE t.sat ]

(***************************************************************************)
(* set_voltage_table_pointers: [ret, lum, sat, len]                        *)
(***************************************************************************)
set_voltage_table_pointers(src, lum, sat, len) ==
  IF src = SOURCE_APPROX_NES \/ src = SOURCE_APPROX_NES_ROTATED
  THEN [ret |-> 0, lum |-> "S_approx_nes_lum", sat |-> "S_approx_nes_sat", len |-> 4]
  ELSE IF src = SOURCE_COMPOSITE_06_0p75X \/ src = SOURCE_COMPOSITE_06_3X
  THEN [ret |-> 0, lum |-> "S_composite_06_lum", sat |-> "S_composite_06_sat", len |-> 6]
  ELSE IF src = SOURCE_COMPOSITE_12_1p50X \/ src = SOURCE_COMPOSITE_12_6X
  THEN [ret |-> 0, lum |-> "S_composite_12_lum", sat |-> "S_composite_12_sat", len |-> 12]
  ELSE IF src = SOURCE_COMPOSITE_18_1X
  THEN [ret |-> 0, lum |-> "S_composite_18_lum", sat |-> "S_composite_18_sat", len |-> 18]
  ELSE IF src = SOURCE_COMPOSITE_24_0p75X \/ src = SOURCE_COMPOSITE_24_3X
  THEN [ret |-> 0, lum |-> "S_composite_24_lum", sat |-> "S_composite_24_sat", len |-> 24]
  ELSE IF src = SOURCE_COMPOSITE_36_2X
  THEN [ret |-> 0, lum |-> "S_composite_36_lum", sat |-> "S_composite_36_sat", len |-> 36]
  ELSE IF src = SOURCE_COMPOSITE_48_1p50X
  THEN [ret |-> 0, lum |-> "S_composite_48_lum", sat |-> "S_composite_48_sat", len |-> 48]
  ELSE [ret |-> 1, lum |-> lum, sat |-> sat, len |-> len]

(***************************************************************************)
(* add_color: [ret, array, num, oob] from the array, the count, the        *)
(* capacity and the three arguments, which the call narrows to unsigned    *)
(* char.  A store at an index outside the array is recorded in oob.        *)
(***************************************************************************)
Color(r, g, b) == [r |-> r % 256, g |-> g % 256, b |-> b % 256]

\* add_color with the bound test off by one
add_color_off_by_one(array, num, max, r, g, b) ==
  IF num < 0 \/ num > max
  THEN [ret |-> 1, array |-> array, num |-> num, oob |-> FALSE]
  ELSE IF num + 1 \in DOMAIN array
  THEN [ret |-> 0, array |-> [array EXCEPT ![num + 1] = Color(r, g, b)],
        num |-> num + 1, oob |-> FALSE]
  ELSE [ret |-> 0, array |-> array, num |-> num + 1, oob |-> TRUE]

add_color(array, num, max, r, g, b) ==
  IF num < 0 \/ num >= max
  THEN [ret |-> 1, array |-> array, num |-> num, oob |-> FALSE]
  ELSE IF num + 1 \in DOMAIN array
  THEN [ret |-> 0, array |-> [array EXCEPT ![num + 1] = Color(r, g, b)],
        num |-> num + 1, oob |-> FALSE]
  ELSE [ret |-> 0, array |-> array, num |-> num + 1, oob |-> TRUE]

\* what the call add_color(c.r, c.g, c.b) returns, as above
AddColorResult(c) ==
  add_color(G_colors_array, G_num_colors, G_max_colors, c.r, c.g, c.b)

AddColorApply(c, a) ==
  /\ G_colors_array' = a.array
  /\ G_num_colors' = a.num
  /\ oob' = (oob \/ a.oob)
  /\ ret' = [ret EXCEPT !.add_color = a.ret]
  /\ call' = Call("add_color", c.r, c.g, c.b)

\* the step of the model that makes the call add_color(c.r, c.g, c.b)
AddColor(c) == AddColorApply(c, AddColorResult(c))

(***************************************************************************)
(* generate_palette_greys, generate_palette_hue: the colour of one tap     *)
(***************************************************************************)
\* (int) ((v * 255) + 0.5f)
Scale255(v) == FloatToInt(FAdd(FMul(v, IntToFloat(255)), F_0p5))

\* the r, g and b generate_palette_greys computes for one tap (not bounded)
Grey(v) == [r |-> v, g |-> v, b |-> v]

\* the grey without the + 0.5f: truncated, not rounded
GreyColorTruncated(luma) == Grey(FloatToInt(FMul(luma, IntToFloat(255))))

GreyColor(luma) == Grey(Scale255(luma))

\* the bounding with the lower test left out
BoundAbove(v) == IF v > 255 THEN 255 ELSE v

Bound(v) == IF v < 0 THEN 0 ELSE IF v > 255 THEN 255 ELSE v

\* r, g and b from y, i and q, bounded to [0, 255]
YiqToRgb(y, ii, q) ==
  [r |-> Bound(Scale255(FAdd(FAdd(y, FMul(ii, F_0p956)), FMul(q, F_0p619)))),
   g |-> Bound(Scale255(FSub(FSub(y, FMul(ii, F_0p272)), FMul(q, F_0p647)))),
   b |-> Bound(Scale255(FAdd(FSub(y, FMul(ii, F_1p106)), FMul(q, F_1p703))))]

HueColor(luma, sat, h) ==
  YiqToRgb(luma, FMulDouble(sat, Cos(h)), FMulDouble(sat, Sin(h)))

\* the hue step of a source, in degrees
HueStep(src) ==
  IF src = SOURCE_APPROX_NES \/ src = SOURCE_APPROX_NES_ROTATED THEN 30
  ELSE IF src = SOURCE_COMPOSITE_06_0p75X \/ src = SOURCE_COMPOSITE_24_0p75X THEN 40
  ELSE IF src = SOURCE_COMPOSITE_18_1X THEN 30
  ELSE IF src = SOURCE_COMPOSITE_12_1p50X \/ src = SOURCE_COMPOSITE_48_1p50X THEN 20
  ELSE IF src = SOURCE_COMPOSITE_36_2X THEN 15
  ELSE IF src = SOURCE_COMPOSITE_06_3X \/ src = SOURCE_COMPOSITE_24_3X THEN 10
  ELSE IF src = SOURCE_COMPOSITE_12_6X THEN 5
  ELSE 30

\* the rotated wheel started 15 degrees the other way
HueStartBackward(src) == IF src = SOURCE_APPROX_NES_ROTATED THEN -15 ELSE 0

HueStart(src) == IF src = SOURCE_APPROX_NES_ROTATED THEN 15 ELSE 0

\* generate_palette_hue, "apply modifier": the range of taps, or return 1
HueIndexes(modifier, len) ==
  IF modifier = HUE_MODIFIER_FULL
  THEN [ret |-> 0, start_index |-> 0, end_index |-> len]
  ELSE IF modifier = HUE_MODIFIER_LOWER_HALF
  THEN [ret |-> 0, start_index |-> 0, end_index |-> len \div 2]
  ELSE IF modifier = HUE_MODIFIER_UPPER_HALF
  THEN [ret |-> 0, start_index |-> len \div 2, end_index |-> len]
  ELSE [ret |-> 1, start_index |-> 0, end_index |-> 0]

\* the approximate NES branch taken for the plain source only
IsApproxNesPlainOnly(src) == src = SOURCE_APPROX_NES

IsApproxNes(src) == src = SOURCE_APPROX_NES \/ src = SOURCE_APPROX_NES_ROTATED

\* the capacities with composite_36_2x listed in the 256 tier
MaxColorsWrongTier(src) ==
  IF src \in {SOURCE_APPROX_NES, SOURCE_APPROX_NES_ROTATED, SOURCE_COMPOSITE_06_0p75X}
  THEN 64
  ELSE IF src \in {SOURCE_COMPOSITE_06_3X, SOURCE_COMPOSITE_12_1p50X,
                   SOURCE_COMPOSITE_18_1X, SOURCE_COMPOSITE_24_0p75X,
                   SOURCE_COMPOSITE_36_2X}
  THEN 256
  ELSE IF src \in {SOURCE_COMPOSITE_12_6X, SOURCE_COMPOSITE_24_3X,
                   SOURCE_COMPOSITE_48_1p50X}
  THEN 1024
  ELSE 0

\* the capacity main chooses; 0 when it cannot determine one
MaxColors(src) ==
  IF src \in {SOURCE_APPROX_NES, SOURCE_APPROX_NES_ROTATED, SOURCE_COMPOSITE_06_0p75X}
  THEN 64
  ELSE IF src \in {SOURCE_COMPOSITE_06_3X, SOURCE_COMPOSITE_12_1p50X,
                   SOURCE_COMPOSITE_18_1X, SOURCE_COMPOSITE_24_0p75X}
  THEN 256
  ELSE IF src \in {SOURCE_COMPOSITE_12_6X, SOURCE_COMPOSITE_24_3X,
                   SOURCE_COMPOSITE_36_2X, SOURCE_COMPOSITE_48_1p50X}
  THEN 1024
  ELSE 0

(***************************************************************************)
(* main, up to the end of generate_palette_from_source                     *)
(***************************************************************************)
\* main's "initialization" and "initialize variables" blocks have run
Init ==
  /\ pc = "generate_voltage_tables"
  /\ S_composite = [name \in DOMAIN CompositeLength |-> ZeroTable(CompositeLength[name])]
  /\ G_colors_array = NULL
  /\ G_num_colors = 0
  /\ G_max_colors = 0
  /\ G_source = SOURCE_APPROX_NES
  /\ S_luma_table = "S_approx_nes_lum"
  /\ S_saturation_table = "S_approx_nes_sat"
  /\ S_table_length = 4
  /\ step = 0 /\ hue = 0 /\ i = 0 /\ k = 0 /\ end_index = 0
  /\ call = NoCall
  /\ ret = NoReturns
  /\ oob = FALSE
  /\ gpl_file = NoFileGpl
  /\ tga_file = NoFileTga
  /\ ncalls = 0
  /\ env = [gpl_opened |-> TRUE, tga_fault |-> NoFault]

GenerateVoltageTables ==
  /\ pc = "generate_voltage_tables"
  /\ S_composite' = generate_voltage_tables(S_composite)
  /\ pc' = "read_arguments"
  /\ UNCHANGED << G_colors_array, G_num_colors, G_max_colors, G_source, S_luma_table,
                  S_saturation_table, S_table_length, step, hue, i, k, end_index,
                  call, ret, oob, gpl_file, tga_file, ncalls, env >>

\* the loop over the command line: every "-s <one of the eleven names>" it
\* meets assigns G_source, so the last one read stays (the default when there
\* is none, -1 here); the loop runs to the end of the arguments, or it meets
\* anything else (an unknown name or argument, a -s without a name), on which
\* main prints a message and returns with G_source as assigned so far
ReadArguments ==
  /\ pc = "read_arguments"
  /\ \E last \in Sources \cup {-1}, bad \in BOOLEAN :
       /\ G_source' = IF last \in Sources THEN last ELSE G_source
       /\ pc' = IF bad THEN "exit" ELSE "allocate"
  /\ UNCHANGED << S_composite, G_colors_array, G_num_colors, G_max_colors, S_luma_table,
                  S_saturation_table, S_table_length, step, hue, i, k, end_index,
                  call, ret, oob, gpl_file, tga_file, ncalls, env >>

\* "allocate palette array": the capacity, then malloc, which may return NULL
AllocatePalette ==
  /\ pc = "allocate"
  /\ \E ok \in BOOLEAN :
       IF MaxColors(G_source) = 0
       THEN /\ pc' = "exit"
            /\ UNCHANGED << G_max_colors, G_colors_array >>
       ELSE /\ G_max_colors' = MaxColors(G_source)
            /\ G_colors_array' = IF ok THEN [j \in 1..MaxColors(G_source) |-> Indeterminate]
                                 ELSE NULL
            /\ pc' = IF ok THEN "set_voltage_table_pointers" ELSE "exit"
  /\ UNCHANGED << S_composite, G_num_colors, G_source, S_luma_table,
                  S_saturation_table, S_table_length, step, hue, i, k, end_index,
                  call, ret, oob, gpl_file, tga_file, ncalls, env >>

SetVoltageTablePointers ==
  /\ pc = "set_voltage_table_pointers"
  /\ LET p == set_voltage_table_pointers(G_source, S_luma_table, S_saturation_table,
                                         S_table_length)
     IN  /\ S_luma_table' = p.lum
         /\ S_saturation_table' = p.sat
         /\ S_table_length' = p.len
         /\ pc' = IF p.ret # 0 THEN "exit" ELSE "generate_palette_from_source"
  /\ UNCHANGED << S_composite, G_colors_array, G_num_colors, G_max_colors, G_source,
                  step, hue, i, k, end_index, call, ret, oob, gpl_file, tga_file,
                  ncalls, env >>

\* generate_palette_from_source, to the call of generate_palette_greys: the
\* hue step and start, and for the approximate NES sources the pure black
GenerateBegin ==
  /\ pc = "generate_palette_from_source"
  /\ step' = HueStep(G_source)
  /\ hue' = HueStart(G_source)
  /\ IF IsApproxNes(G_source)
     THEN AddColor([r |-> 0, g |-> 0, b |-> 0])
     ELSE UNCHANGED << G_colors_array, G_num_colors, oob, ret, call >>
  /\ k' = 0
  /\ pc' = "generate_palette_greys"
  /\ UNCHANGED << S_composite, G_max_colors, G_source, S_luma_table, S_saturation_table,
                  S_table_length, i, end_index, gpl_file, tga_file, ncalls, env >>

\* one iteration of the loop of generate_palette_greys
GenerateGrey ==
  /\ pc = "generate_palette_greys"
  /\ k < S_table_length
  /\ AddColor(GreyColor(Deref(S_luma_table)[k + 1]))
  /\ k' = k + 1
  /\ UNCHANGED << pc, S_composite, G_max_colors, G_source, S_luma_table,
                  S_saturation_table, S_table_length, step, hue, i, end_index,
                  gpl_file, tga_file, ncalls, env >>

\* generate_palette_greys returns; the approximate NES sources add pure white
GenerateGreysDone ==
  /\ pc = "generate_palette_greys"
  /\ k >= S_table_length
  /\ IF IsApproxNes(G_source)
     THEN AddColor([r |-> 255, g |-> 255, b |-> 255])
     ELSE UNCHANGED << G_colors_array, G_num_colors, oob, ret, call >>
  /\ i' = 0
  /\ pc' = "hue_loop"
  /\ UNCHANGED << S_composite, G_max_colors, G_source, S_luma_table, S_saturation_table,
                  S_table_length, step, hue, k, end_index, gpl_file, tga_file, ncalls, env >>

\* the head of the hue loop: the call of generate_palette_hue(hue,
\* HUE_MODIFIER_FULL), to its own loop (or its return 1 on an invalid hue or
\* an invalid modifier),
\* or the end of generate_palette_from_source
HueLoop ==
  /\ pc = "hue_loop"
  /\ IF i < 360 \div step
     THEN IF hue < 0 \/ hue >= 360 \/ HueIndexes(HUE_MODIFIER_FULL, S_table_length).ret # 0
          THEN /\ ret' = [ret EXCEPT !.generate_palette_hue = 1]
               /\ call' = Call("generate_palette_hue", 0, 0, 0)
               /\ hue' = (hue + step) % 360
               /\ i' = i + 1
               /\ UNCHANGED << pc, k, end_index >>
          ELSE /\ k' = HueIndexes(HUE_MODIFIER_FULL, S_table_length).start_index
               /\ end_index' = HueIndexes(HUE_MODIFIER_FULL, S_table_length).end_index
               /\ pc' = "generate_palette_hue"
               /\ UNCHANGED << ret, call, hue, i >>
     ELSE /\ pc' = "write_gpl_file"
          /\ UNCHANGED << ret, call, hue, i, k, end_index >>
  /\ UNCHANGED << S_composite, G_colors_array, G_num_colors, G_max_colors, G_source,
                  S_luma_table, S_saturation_table, S_table_length, step, oob,
                  gpl_file, tga_file, ncalls, env >>

\* one iteration of the loop of generate_palette_hue
GenerateHueColor ==
  /\ pc = "generate_palette_hue"
  /\ k < end_index
  /\ AddColor(HueColor(Deref(S_luma_table)[k + 1], Deref(S_saturation_table)[k + 1], hue))
  /\ k' = k + 1
  /\ UNCHANGED << pc, S_composite, G_max_colors, G_source, S_luma_table,
                  S_saturation_table, S_table_length, step, hue, i, end_index,
                  gpl_file, tga_file, ncalls, env >>

\* generate_palette_hue returns 0; the caller increments the hue
GenerateHueDone ==
  /\ pc = "generate_palette_hue"
  /\ k >= end_index
  /\ hue' = (hue + step) % 360
  /\ i' = i + 1
  /\ pc' = "hue_loop"
  /\ ret' = [ret EXCEPT !.generate_palette_hue = 0]
  /\ UNCHANGED << S_composite, G_colors_array, G_num_colors, G_max_colors, G_source,
                  S_luma_table, S_saturation_table, S_table_length, step, k, end_index,
                  call, oob, gpl_file, tga_file, ncalls, env >>

(***************************************************************************)
(* write_gpl_file.  The file is a sequence of lines, a line the sequence   *)
(* of its characters without the newline that ends it.  fopen may fail;    *)
(* the code never looks at what fprintf returns, and the model lets every  *)
(* fprintf on an open stream write its text.                               *)
(***************************************************************************)
DigitChar == << "0", "1", "2", "3", "4", "5", "6", "7", "8", "9" >>

\* printf's %d for n >= 0
RECURSIVE Decimal(_)
Decimal(n) ==
  IF n < 10 THEN << DigitChar[n + 1] >>
  ELSE Decimal(n \div 10) \o << DigitChar[(n % 10) + 1] >>

\* the columns without the padding for values below 100
GplFieldUnpadded(v) ==
  IF v < 10 THEN << " ", " " >> \o Decimal(v)
  ELSE Decimal(v)

\* "  %d", " %d" or "%d" by the size of v: the r, g and b columns
GplField(v) ==
  IF v < 10 THEN << " ", " " >> \o Decimal(v)
  ELSE IF v < 100 THEN << " " >> \o Decimal(v)
  ELSE Decimal(v)

\* the line the loop body prints for one colour
GplColorLine(c) ==
  GplField(c.r) \o << " " >> \o GplField(c.g) \o << " " >> \o GplField(c.b)
    \o << "\t", "(" >> \o Decimal(c.r) \o << ",", " " >> \o Decimal(c.g)
    \o << ",", " " >> \o Decimal(c.b) \o << ")" >>

\* the characters of the text after "Name: " that write_gpl_file prints for a source
GplName(src) ==
  CASE src = SOURCE_APPROX_NES ->
      << "A", "p", "p", "r", "o", "x", "i", "m", "a", "t", "e", " ", "N", "E", "S" >>
    [] src = SOURCE_APPROX_NES_ROTATED ->
      << "A", "p", "p", "r", "o", "x", "i", "m", "a", "t", "e", " ", "N", "E", "S", " ", "R", "o", "t", "a", "t", "e", "d" >>
    [] src = SOURCE_COMPOSITE_06_0p75X ->
      << "C", "o", "m", "p", "o", "s", "i", "t", "e", " ", "0", "6", " ", "0", ".", "7", "5", "X" >>
    [] src = SOURCE_COMPOSITE_06_3X ->
      << "C", "o", "m", "p", "o", "s", "i", "t", "e", " ", "0", "6", " ", "3", "X" >>
    [] src = SOURCE_COMPOSITE_12_1p50X ->
      << "C", "o", "m", "p", "o", "s", "i", "t", "e", " ", "1", "2", " ", "1", ".", "5", "X" >>
    [] src = SOURCE_COMPOSITE_12_6X ->
      << "C", "o", "m", "p", "o", "s", "i", "t", "e", " ", "1", "2", " ", "6", "X" >>
    [] src = SOURCE_COMPOSITE_18_1X ->
      << "C", "o", "m", "p", "o", "s", "i", "t", "e", " ", "1", "8", " ", "1", "X" >>
    [] src = SOURCE_COMPOSITE_24_0p75X ->
      << "C", "o", "m", "p", "o", "s", "i", "t", "e", " ", "2", "4", " ", "0", ".", "7", "5", "X" >>
    [] src = SOURCE_COMPOSITE_24_3X ->
      << "C", "o", "m", "p", "o", "s", "i", "t", "e", " ", "2", "4", " ", "3", "X" >>
    [] src = SOURCE_COMPOSITE_36_2X ->
      << "C", "o", "m", "p", "o", "s", "i", "t", "e", " ", "3", "6", " ", "2", "X" >>
    [] src = SOURCE_COMPOSITE_48_1p50X ->
      << "C", "o", "m", "p", "o", "s", "i", "t", "e", " ", "4", "8", " ", "1", ".", "5", "X" >>
    [] OTHER -> << >>

GplHeader(src) ==
  << << "G", "I", "M", "P", " ", "P", "a", "l", "e", "t", "t", "e" >> >>
    \o (IF src \in Sources
        THEN << << "N", "a", "m", "e", ":", " " >> \o GplName(src), << >> >>
        ELSE << >>)

\* [ret, file]: opened tells whether fopen(filename, "w") succeeded
write_gpl_file(file, opened, src, array, num) ==
  IF ~opened THEN [ret |-> 1, file |-> file]
  ELSE [ret |-> 0,
        file |-> [exists |-> TRUE,
                  lines |-> GplHeader(src) \o [j \in 1..num |-> GplColorLine(array[j])]]]

(***************************************************************************)
(* write_tga_file.  The file is its sequence of bytes.  The ten fwrite     *)
(* calls of the header and the one fwrite per pixel slot are numbered      *)
(* 1 .. 10 + image_w; a call is [data, size, nmemb].  An fwrite returns    *)
(* the number of items it transferred, which is nmemb unless the call is   *)
(* the one the environment cuts short (fault.call), which transfers        *)
(* fault.items < nmemb items.  fault.call = 0: no short write;             *)
(* fault.call = -1: fopen fails.  The build is little-endian.              *)
(***************************************************************************)
ImageWidth(num) ==
  IF num <= 64 THEN 64
  ELSE IF num <= 256 THEN 256
  ELSE IF num <= 1024 THEN 1024
  ELSE 1024

\* a short int in memory
ShortBytes(v) == << v % 256, (v \div 256) % 256 >>

TgaHeaderCalls(image_w) ==
  << [data |-> << 0 >>, size |-> 1, nmemb |-> 1],              \* image_id_field_length
     [data |-> << 0 >>, size |-> 1, nmemb |-> 1],              \* color_map_type
     [data |-> << 2 >>, size |-> 1, nmemb |-> 1],              \* image_type
     [data |-> << 0, 0, 0, 0, 0 >>, size |-> 1, nmemb |-> 5],  \* color_map_specification
     [data |-> ShortBytes(0), size |-> 2, nmemb |-> 1],        \* x_origin
     [data |-> ShortBytes(0), size |-> 2, nmemb |-> 1],        \* y_origin
     [data |-> ShortBytes(image_w), size |-> 2, nmemb |-> 1],  \* image_w
     [data |-> ShortBytes(1), size |-> 2, nmemb |-> 1],        \* image_h
     [data |-> << 24 >>, size |-> 1, nmemb |-> 1],             \* pixel_bpp
     [data |-> << 32 >>, size |-> 1, nmemb |-> 1] >>           \* image_descriptor

\* output_buffer for pixel slot q (from 1): a colour of the list, or zeroes
TgaPixelCall(q, array, num) ==
  [data |-> IF q <= num THEN << array[q].b, array[q].g, array[q].r >> ELSE << 0, 0, 0 >>,
   size |-> 1, nmemb |-> 3]

TgaCall(j, array, num, image_w) ==
  IF j <= 10 THEN TgaHeaderCalls(image_w)[j] ELSE TgaPixelCall(j - 10, array, num)

\* the bytes the calls before call j hand to fwrite
TgaOffset(j) ==
  IF j <= 10 THEN << 0, 1, 2, 3, 8, 10, 12, 14, 16, 17 >>[j] ELSE 18 + 3 * (j - 11)

\* byte p (from 1) of what the calls hand to fwrite, in order
TgaStream(p, array, num, image_w) ==
  IF p <= 3 THEN TgaCall(p, array, num, image_w).data[1]
  ELSE IF p <= 8 THEN TgaCall(4, array, num, image_w).data[p - 3]
  ELSE IF p <= 16 THEN TgaCall(5 + ((p - 9) \div 2), array, num, image_w).data[((p - 9) % 2) + 1]
  ELSE IF p <= 18 THEN TgaCall(p - 8, array, num, image_w).data[1]
  ELSE TgaCall(11 + ((p - 19) \div 3), array, num, image_w).data[((p - 19) % 3) + 1]

\* the test the code makes on what fwrite returned
FwriteFailed(items) == items < 1

\* [ret, file]
write_tga_file(file, fault, array, num) ==
  IF num >= 1024 THEN [ret |-> 0, file |-> file]
  ELSE IF fault.call = -1 THEN [ret |-> 1, file |-> file]
  ELSE LET image_w == ImageWidth(num)
           total   == 18 + 3 * image_w
           c       == fault.call
           cc      == TgaCall(c, array, num, image_w)
           \* the bytes of call c that reach the file, and those that do not
           got     == fault.items * cc.size
           lost    == (cc.nmemb - fault.items) * cc.size
           cut     == TgaOffset(c) + got
       IN  IF c = 0
           THEN [ret |-> 0,
                 file |-> [exists |-> TRUE,
                           bytes |-> [p \in 1..total |-> TgaStream(p, array, num, image_w)]]]
           ELSE IF FwriteFailed(fault.items)
           THEN [ret |-> 1,
                 file |-> [exists |-> TRUE,
                           bytes |-> [p \in 1..cut |-> TgaStream(p, array, num, image_w)]]]
           ELSE [ret |-> 0,
                 file |-> [exists |-> TRUE,
                           bytes |-> [p \in 1..(total - lost) |->
                                        TgaStream(IF p <= cut THEN p ELSE p + lost,
                                                  array, num, image_w)]]]

\* the short writes the model lets the environment make: any header call, and
\* the first MaxFaultPixels pixel slots
MaxFaultPixels == 2

TgaFaults(array, num) ==
  LET image_w == ImageWidth(num)
      last    == 10 + (IF image_w < MaxFaultPixels THEN image_w ELSE MaxFaultPixels)
  IN  {NoFault, OpenFails} \cup
      UNION { { [call |-> j, items |-> t] : t \in 0..(TgaCall(j, array, num, image_w).nmemb - 1) }
              : j \in 1..last }

(***************************************************************************)
(* main, from the writers to its return                                    *)
(***************************************************************************)
\* main giving up when write_gpl_file fails
WriteGplFileOrExit ==
  /\ pc = "write_gpl_file"
  /\ \E opened \in BOOLEAN :
       LET w == write_gpl_file(gpl_file, opened, G_source, G_colors_array, G_num_colors)
       IN  /\ gpl_file' = w.file
           /\ ret' = [ret EXCEPT !.write_gpl_file = w.ret]
           /\ env' = [env EXCEPT !.gpl_opened = opened]
           /\ pc' = IF w.ret # 0 THEN "exit" ELSE "write_tga_file"
  /\ call' = Call("write_gpl_file", 0, 0, 0)
  /\ UNCHANGED << S_composite, G_colors_array, G_num_colors, G_max_colors, G_source,
                  S_luma_table, S_saturation_table, S_table_length, step, hue, i, k,
                  end_index, oob, tga_file, ncalls >>

WriteGplFile ==
  /\ pc = "write_gpl_file"
  /\ \E opened \in BOOLEAN :
       LET w == write_gpl_file(gpl_file, opened, G_source, G_colors_array, G_num_colors)
       IN  /\ gpl_file' = w.file
           /\ ret' = [ret EXCEPT !.write_gpl_file = w.ret]
           /\ env' = [env EXCEPT !.gpl_opened = opened]
  /\ call' = Call("write_gpl_file", 0, 0, 0)
  /\ pc' = "write_tga_file"
  /\ UNCHANGED << S_composite, G_colors_array, G_num_colors, G_max_colors, G_source,
                  S_luma_table, S_saturation_table, S_table_length, step, hue, i, k,
                  end_index, oob, tga_file, ncalls >>

WriteTgaFile ==
  /\ pc = "write_tga_file"
  /\ \E fault \in TgaFaults(G_colors_array, G_num_colors) :
       LET w == write_tga_file(tga_file, fault, G_colors_array, G_num_colors)
       IN  /\ tga_file' = w.file
           /\ ret' = [ret EXCEPT !.write_tga_file = w.ret]
           /\ env' = [env EXCEPT !.tga_fault = fault]
  /\ call' = Call("write_tga_file", 0, 0, 0)
  /\ pc' = "free"
  /\ UNCHANGED << S_composite, G_colors_array, G_num_colors, G_max_colors, G_source,
                  S_luma_table, S_saturation_table, S_table_length, step, hue, i, k,
                  end_index, oob, gpl_file, ncalls >>

\* "free palette array", and main returns
FreePalette ==
  /\ pc = "free"
  /\ G_colors_array' = NULL
  /\ pc' = "done"
  /\ UNCHANGED << S_composite, G_num_colors, G_max_colors, G_source, S_luma_table,
                  S_saturation_table, S_table_length, step, hue, i, k, end_index,
                  call, ret, oob, gpl_file, tga_file, ncalls, env >>

(***************************************************************************)
(* The functions on their own.  SpecUnit calls add_color and then          *)
(* write_tga_file on colour lists that main never builds: lists near       *)
(* empty, near each image-width tier and near each capacity, full lists    *)
(* included.                                                               *)
(***************************************************************************)
\* how far from 0, 64, 256 and 1024 the initial lists of the driver reach
MaxRoom == 2

\* how many times the driver calls add_color
MaxUnitCalls == 2

Capacities == {64, 256, 1024}

UnitCounts(max) ==
  { n \in 0..max : \E t \in {0, 64, 256, 1024} : n - t <= MaxRoom /\ t - n <= MaxRoom }

\* the j-th colour of an initial list: the three channels differ and vary with j
UnitColor(j) == [r |-> (7 * j) % 256, g |-> (13 * j + 5) % 256, b |-> (255 - j) % 256]

\* the colours the driver hands to add_color
UnitInputs == { [r |-> 0, g |-> 128, b |-> 255], [r |-> 9, g |-> 99, b |-> 100] }

InitUnit ==
  /\ pc = "unit"
  /\ S_composite = [name \in DOMAIN CompositeLength |-> ZeroTable(CompositeLength[name])]
  /\ G_max_colors \in Capacities
  /\ G_num_colors \in UnitCounts(G_max_colors)
  /\ G_colors_array = [j \in 1..G_max_colors |->
                         IF j <= G_num_colors THEN UnitColor(j) ELSE Indeterminate]
  /\ G_source = SOURCE_APPROX_NES
  /\ S_luma_table = "S_approx_nes_lum"
  /\ S_saturation_table = "S_approx_nes_sat"
  /\ S_table_length = 4
  /\ step = 0 /\ hue = 0 /\ i = 0 /\ k = 0 /\ end_index = 0
  /\ call = NoCall
  /\ ret = NoReturns
  /\ oob = FALSE
  /\ gpl_file = NoFileGpl
  /\ tga_file = NoFileTga
  /\ ncalls = 0
  /\ env = [gpl_opened |-> TRUE, tga_fault |-> NoFault]

UnitAddColor ==
  /\ pc = "unit"
  /\ ncalls < MaxUnitCalls
  /\ \E c \in UnitInputs : AddColor(c)
  /\ ncalls' = ncalls + 1
  /\ UNCHANGED << pc, S_composite, G_max_colors, G_source, S_luma_table,
                  S_saturation_table, S_table_length, step, hue, i, k, end_index,
                  gpl_file, tga_file, env >>

UnitWriteTgaFile ==
  /\ pc = "unit"
  /\ \E fault \in TgaFaults(G_colors_array, G_num_colors) :
       LET w == write_tga_file(tga_file, fault, G_colors_array, G_num_colors)
       IN  /\ tga_file' = w.file
           /\ ret' = [ret EXCEPT !.write_tga_file = w.ret]
           /\ env' = [env EXCEPT !.tga_fault = fault]
  /\ call' = Call("write_tga_file", 0, 0, 0)
  /\ pc' = "unit_done"
  /\ UNCHANGED << S_composite, G_colors_array, G_num_colors, G_max_colors, G_source,
                  S_luma_table, S_saturation_table, S_table_length, step, hue, i, k,
                  end_index, oob, gpl_file, ncalls >>

Next ==
  \/ GenerateVoltageTables
  \/ ReadArguments
  \/ AllocatePalette
  \/ SetVoltageTablePointers
  \/ GenerateBegin
  \/ GenerateGrey
  \/ GenerateGreysDone
  \/ HueLoop
  \/ GenerateHueColor
  \/ GenerateHueDone
  \/ WriteGplFile
  \/ WriteTgaFile
  \/ FreePalette

Spec == Init /\ [][Next]_vars

NextUnit ==
  \/ UnitAddColor
  \/ UnitWriteTgaFile

SpecUnit == InitUnit /\ [][NextUnit]_vars

(***************************************************************************)
(* Properties.                                                             *)
(***************************************************************************)
Black == [r |-> 0, g |-> 0, b |-> 0]

White == [r |-> 255, g |-> 255, b |-> 255]

IsStoredColor(c) == c.r \in 0..255 /\ c.g \in 0..255 /\ c.b \in 0..255

\* generate_palette_from_source has returned and the array is not yet freed
AfterGeneration == pc \in {"write_gpl_file", "write_tga_file", "free"}

\* v is luma * 255 rounded to the nearest integer, up to the rounding error of
\* the single-precision product and sum: |255 * luma - v| <= 1/2 + 2^-15,
\* in exact integer arithmetic (255 * m - v * 2^sh = 256 * (m - v * 2^(sh - 8)) - m)
NearestLevel(luma, v) ==
  IF luma.m = 0 THEN v = 0
  ELSE LET sh == -luma.e
           dm == luma.m - v * Pow2(sh - 8)
           x  == 256 * dm - luma.m
       IN  /\ luma.s = 0
           /\ sh >= 24 /\ sh <= 30
           /\ v \in 0..255
           /\ dm > -Pow2(20) /\ dm < Pow2(20)
           /\ 2 * x <= Pow2(sh) + Pow2(sh - 14)
           /\ -2 * x <= Pow2(sh) + Pow2(sh - 14)

IsGreyOf(c, luma) == c.r = c.g /\ c.g = c.b /\ NearestLevel(luma, c.r)

\* C1: for every source, main's pipeline never appends to a full list: every
\* add_color call has returned 0, no store fell outside the array, and in
\* every reachable state 0 <= G_num_colors <= G_max_colors, the capacity being
\* 64, 256 or 1024 once main has chosen it.
C1_NoAppendOnFullList ==
  /\ ret.add_color = 0
  /\ ~oob
  /\ 0 <= G_num_colors
  /\ G_num_colors <= G_max_colors
  /\ pc \notin {"generate_voltage_tables", "read_arguments", "allocate", "exit"}
       => G_max_colors \in {64, 256, 1024}
  /\ pc \notin {"generate_voltage_tables", "read_arguments", "allocate", "exit", "done"}
       => Len(G_colors_array) = G_max_colors

C1_Witness ==
  /\ pc = "done"
  /\ G_source = SOURCE_COMPOSITE_48_1p50X
  /\ call.fn = "write_tga_file"
  /\ G_num_colors = 912
  /\ G_max_colors = 1024

\* C2: for approx_nes and approx_nes_rotated the generator produces exactly
\* 1 + 4 + 1 + 12 * 4 = 54 colours in the order black, 4 greys, white, 48 hue
\* colours: the first is (0,0,0) and the 6th is (255,255,255).
C2_ApproxNesPalette ==
  (AfterGeneration /\ G_source \in {SOURCE_APPROX_NES, SOURCE_APPROX_NES_ROTATED}) =>
    /\ S_table_length = 4
    /\ G_num_colors = 1 + 4 + 1 + 12 * 4
    /\ G_colors_array[1] = Black
    /\ \A t \in 1..4 : IsGreyOf(G_colors_array[1 + t], S_approx_nes_lum[t])
    /\ G_colors_array[2 + S_table_length] = White
    /\ \A j \in 7..54 : IsStoredColor(G_colors_array[j])
    /\ \A j \in 55..G_max_colors : G_colors_array[j] = Indeterminate

C2_Witness ==
  /\ pc = "write_gpl_file"
  /\ G_source = SOURCE_APPROX_NES_ROTATED
  /\ G_num_colors = 54
  /\ G_colors_array[6] = White

\* C3: for every composite source the generator appends no black or white
\* endpoint: the list starts with exactly tableLength greys, grey k of value
\* round(luma[k] * 255) in all three channels, followed by 360 / step hue groups
\* of tableLength colours, so G_num_colors = tableLength * (1 + 360 / step),
\* the step being 40, 30, 20, 15, 10 or 5 degrees.
C3_CompositePalette ==
  (AfterGeneration /\ G_source \notin {SOURCE_APPROX_NES, SOURCE_APPROX_NES_ROTATED}) =>
    /\ step \in {40, 30, 20, 15, 10, 5}
    /\ 360 % step = 0
    /\ S_table_length = Len(Deref(S_luma_table))
    /\ S_table_length \in {6, 12, 18, 24, 36, 48}
    /\ G_num_colors = S_table_length * (1 + 360 \div step)
    /\ \A t \in 1..S_table_length :
         IsGreyOf(G_colors_array[t], Deref(S_luma_table)[t])
    /\ G_colors_array[1] # Black
    /\ G_colors_array[S_table_length] # White
    /\ \A j \in (S_table_length + 1)..G_num_colors : IsStoredColor(G_colors_array[j])
    /\ \A j \in (G_num_colors + 1)..G_max_colors : G_colors_array[j] = Indeterminate

C3_Witness ==
  /\ pc = "write_gpl_file"
  /\ G_source = SOURCE_COMPOSITE_12_6X
  /\ step = 5
  /\ G_num_colors = 12 * 73

\* C4: write_tga_file refuses when G_num_colors >= 1024: it reports failure to
\* its caller (a failure result, not the success result) and writes no file.
C4_RefusalReportsFailure ==
  (pc = "unit_done" /\ G_num_colors >= 1024) =>
    (ret.write_tga_file # 0 /\ ~tga_file.exists)

\* the part of C4 the code keeps: on a refusal no file is written
TgaRefusalWritesNothing ==
  (pc = "unit_done" /\ G_num_colors >= 1024) => ~tga_file.exists

\* C5: write_tga_file returns non-zero whenever the file cannot be opened or
\* any fwrite transfers fewer items than requested.
C5_ShortWriteFails ==
  (pc = "free" /\ env.tga_fault # NoFault) => ret.write_tga_file # 0

\* what the code does: it returns non-zero when the file cannot be opened or an
\* fwrite transfers nothing
TgaEmptyWriteFails ==
  (pc = "free" /\ env.tga_fault # NoFault /\ env.tga_fault.items = 0)
    => ret.write_tga_file # 0

\* the smallest of 64, 256 and 1024 that is >= n
SmallestTier(n) == CHOOSE w \in {64, 256, 1024} :
                     w >= n /\ \A v \in {64, 256, 1024} : v >= n => w <= v

\* C6: when write_tga_file succeeds on n < 1024 colours, the width in the
\* header is the smallest of 64, 256, 1024 that is >= n and the file is exactly
\* 18 + 3 * w bytes long.
C6_SuccessfulFileSize ==
  (pc = "free" /\ ret.write_tga_file = 0 /\ G_num_colors < 1024) =>
    /\ tga_file.exists
    /\ Len(tga_file.bytes) = 18 + 3 * SmallestTier(G_num_colors)
    /\ tga_file.bytes[13] + 256 * tga_file.bytes[14] = SmallestTier(G_num_colors)

\* C6 with every fwrite complete
TgaFileSizeWhenNoShortWrite ==
  (pc = "free" /\ env.tga_fault = NoFault /\ G_num_colors < 1024) =>
    /\ ret.write_tga_file = 0
    /\ tga_file.exists
    /\ Len(tga_file.bytes) = 18 + 3 * SmallestTier(G_num_colors)
    /\ tga_file.bytes[13] + 256 * tga_file.bytes[14] = SmallestTier(G_num_colors)

\* pixel slot q (from 0) of the file holds the bytes c0, c1, c2
TgaSlotIs(q, c0, c1, c2) ==
  /\ tga_file.bytes[18 + 3 * q + 1] = c0
  /\ tga_file.bytes[18 + 3 * q + 2] = c1
  /\ tga_file.bytes[18 + 3 * q + 3] = c2

TgaPixelsInOrder ==
  /\ Len(tga_file.bytes) >= 18 + 3 * SmallestTier(G_num_colors)
  /\ \A q \in 0..(SmallestTier(G_num_colors) - 1) :
       IF q < G_num_colors
       THEN TgaSlotIs(q, G_colors_array[q + 1].b, G_colors_array[q + 1].g,
                      G_colors_array[q + 1].r)
       ELSE TgaSlotIs(q, 0, 0, 0)

\* C7: in a successfully written TGA file with n colours and width w, pixel
\* slot i < n holds (b, g, r) of the i-th colour and every slot n <= i < w
\* holds (0, 0, 0).
C7_SuccessfulFilePixels ==
  (pc = "free" /\ ret.write_tga_file = 0 /\ G_num_colors < 1024) => TgaPixelsInOrder

\* C7 with every fwrite complete
TgaPixelsWhenNoShortWrite ==
  (pc = "free" /\ env.tga_fault = NoFault /\ G_num_colors < 1024) => TgaPixelsInOrder

(***************************************************************************)
(* Reading a GPL colour line back: the fields between spaces and tabs, and *)
(* the number a field of decimal digits denotes (-1 when it is no number). *)
(***************************************************************************)
RECURSIVE Fields(_, _, _)
Fields(line, p, cur) ==
  IF p > Len(line) THEN (IF cur = << >> THEN << >> ELSE << cur >>)
  ELSE IF line[p] \in {" ", "\t"}
  THEN (IF cur = << >> THEN << >> ELSE << cur >>) \o Fields(line, p + 1, << >>)
  ELSE Fields(line, p + 1, Append(cur, line[p]))

IsDigit(ch) == \E d \in 1..10 : DigitChar[d] = ch

DigitValue(ch) == (CHOOSE d \in 1..10 : DigitChar[d] = ch) - 1

RECURSIVE FieldValue(_, _, _)
FieldValue(field, p, acc) ==
  IF p > Len(field) THEN acc
  ELSE IF ~IsDigit(field[p]) THEN -1
  ELSE FieldValue(field, p + 1, 10 * acc + DigitValue(field[p]))

ParseField(field) == IF field = << >> THEN -1 ELSE FieldValue(field, 1, 0)

\* the three leading decimal fields of a line
ParseLine(line) ==
  IF Len(Fields(line, 1, << >>)) < 3 THEN << -1, -1, -1 >>
  ELSE << ParseField(Fields(line, 1, << >>)[1]), ParseField(Fields(line, 1, << >>)[2]),
          ParseField(Fields(line, 1, << >>)[3]) >>

DigitCount(v) == IF v < 10 THEN 1 ELSE IF v < 100 THEN 2 ELSE 3

\* columns from..from+2 of the line hold v right-aligned, padded with spaces
IsPaddedField(line, from, v) ==
  /\ Len(line) >= from + 2
  /\ \A p \in from..(from + 2 - DigitCount(v)) : line[p] = " "
  /\ FieldValue(SubSeq(line, from + 3 - DigitCount(v), from + 2), 1, 0) = v

GplLineReadsBack(line, c) ==
  /\ ParseLine(line) = << c.r, c.g, c.b >>
  /\ IsPaddedField(line, 1, c.r)
  /\ line[4] = " "
  /\ IsPaddedField(line, 5, c.g)
  /\ line[8] = " "
  /\ IsPaddedField(line, 9, c.b)
  /\ line[12] = "\t"

\* C8: for every source, the text write_gpl_file emits holds, after the three
\* header lines, exactly G_num_colors colour lines, and reading line i back
\* (its three leading decimal fields, each right-aligned in 3 columns) yields
\* the (r, g, b) of the i-th colour of the list.
C8_GplReadsBack ==
  (pc = "write_tga_file" /\ gpl_file.exists) =>
    /\ Len(gpl_file.lines) = 3 + G_num_colors
    /\ gpl_file.lines[1] = << "G", "I", "M", "P", " ", "P", "a", "l", "e", "t", "t", "e" >>
    /\ SubSeq(gpl_file.lines[2], 1, 6) = << "N", "a", "m", "e", ":", " " >>
    /\ gpl_file.lines[3] = << >>
    /\ \A j \in 1..G_num_colors :
         GplLineReadsBack(gpl_file.lines[3 + j], G_colors_array[j])

C8_Witness ==
  /\ pc = "write_tga_file"
  /\ gpl_file.exists
  /\ G_source = SOURCE_COMPOSITE_48_1p50X
  /\ Len(gpl_file.lines) = 3 + 912
  /\ \E j \in 1..G_num_colors : G_colors_array[j].r < 10 /\ G_colors_array[j].b >= 100

\* C9: the writers are independent: whatever write_gpl_file returns, main goes
\* on to call write_tga_file; write_tga_file leaves the GPL file as it is,
\* whatever it returns, and main goes on to its end; and neither changes the
\* colour list, so both read the same one.
C9_WritersIndependent ==
  [][ /\ pc = "write_gpl_file" =>
           /\ pc' = "write_tga_file"
           /\ call'.fn = "write_gpl_file"
           /\ UNCHANGED << G_colors_array, G_num_colors, tga_file >>
      /\ pc = "write_tga_file" =>
           /\ pc' = "free"
           /\ call'.fn = "write_tga_file"
           /\ UNCHANGED << G_colors_array, G_num_colors, gpl_file >>
      /\ pc = "free" =>
           /\ pc' = "done"
           /\ UNCHANGED << gpl_file, tga_file, ret >> ]_vars

\* the GPL file could not be opened, and the TGA file was written in full
C9_Witness ==
  /\ pc = "done"
  /\ ret.write_gpl_file = 1
  /\ ~gpl_file.exists
  /\ ret.write_tga_file = 0
  /\ tga_file.exists
  /\ Len(tga_file.bytes) = 18 + 3 * 1024

\* a step of the driver that is a call of add_color
IsAddColorCall == call'.fn = "add_color" /\ ncalls' = ncalls + 1

\* C10: add_color on a full list returns 1 and drops the append: the count and
\* every stored colour stay as they are and nothing is stored outside the
\* array, and the run goes on; on a list that is not full it stores the colour
\* at index G_num_colors, adds exactly 1 to the count and changes no other
\* entry.
C10_AddColorContract ==
  [][ IsAddColorCall =>
        /\ pc' = pc
        /\ ~oob'
        /\ Len(G_colors_array') = G_max_colors
        /\ IF G_num_colors >= G_max_colors
           THEN /\ ret'.add_color = 1
                /\ UNCHANGED << G_colors_array, G_num_colors >>
           ELSE /\ ret'.add_color = 0
                /\ G_num_colors' = G_num_colors + 1
                /\ G_colors_array'[G_num_colors + 1] = [r |-> call'.r, g |-> call'.g, b |-> call'.b]
                /\ \A j \in 1..G_max_colors :
                     j # G_num_colors + 1 => G_colors_array'[j] = G_colors_array[j] ]_vars

\* a call on a full list has returned 1, after a call that stored a colour in
\* the last free entry
C10_Witness ==
  /\ call.fn = "add_color"
  /\ ncalls = 2
  /\ ret.add_color = 1
  /\ G_num_colors = G_max_colors
  /\ G_colors_array[G_max_colors] \in UnitInputs

\* the call add_color(r, g, b) just made, with the int arguments of the caller
\* before the narrowing to unsigned char, came from one of the two loops
InGreyLoop == pc = "generate_palette_greys" /\ k > 0 /\ call.fn = "add_color"

InHueLoop == pc = "generate_palette_hue" /\ k > 0 /\ call.fn = "add_color"

\* C11: for every source, every channel value generate_palette_greys and
\* generate_palette_hue hand to add_color is an integer in 0..255, so the
\* narrowing to unsigned char keeps it: the colour stored is the colour
\* handed over.  The greys are in range without any bounding.
C11_ChannelsInRange ==
  (InGreyLoop \/ InHueLoop) =>
    /\ call.r \in 0..255
    /\ call.g \in 0..255
    /\ call.b \in 0..255
    /\ G_num_colors > 0
    /\ G_colors_array[G_num_colors] = [r |-> call.r, g |-> call.g, b |-> call.b]
    /\ InGreyLoop => call.r = Scale255(Deref(S_luma_table)[k])

\* the b of the tap before index k at the current hue, before the bounding
RawBlue(y, ii, q) == Scale255(FAdd(FSub(y, FMul(ii, F_1p106)), FMul(q, F_1p703)))

\* a hue colour whose b was below 0 before the bounding, and is handed over as 0
C11_Witness ==
  /\ InHueLoop
  /\ G_source = SOURCE_COMPOSITE_12_6X
  /\ RawBlue(Deref(S_luma_table)[k],
             FMulDouble(Deref(S_saturation_table)[k], Cos(hue)),
             FMulDouble(Deref(S_saturation_table)[k], Sin(hue))) < 0
  /\ call.b = 0
  /\ call.r \in 1..254

\* the table of length n generate_voltage_tables has built: luma or saturation
BuiltTable(n, luma) ==
  S_composite[CHOOSE name \in DOMAIN S_composite :
                IsLum(name) = luma /\ CompositeLength[name] = n]

\* the float t is the single-precision value nearest to 1 / d
IsNearestReciprocal(t, d) ==
  /\ t.s = 0 /\ t.e < 0 /\ t.e >= -30
  /\ 2 * (t.m * d - Pow2(-t.e)) <= d
  /\ 2 * (Pow2(-t.e) - t.m * d) <= d

\* the float x is c / d within two units of its last place
IsNearRatio(x, c, d) ==
  /\ x.s = 0 /\ x.e < 0 /\ x.e >= -30
  /\ x.m * d - c * Pow2(-x.e) <= 2 * d
  /\ c * Pow2(-x.e) - x.m * d <= 2 * d

\* 2^30 * (a + b) for floats a and b in (0, 1)
ExactSum30(a, b) == a.m * Pow2(30 + a.e) + b.m * Pow2(30 + b.e)

\* a + b = 1: the float sum is 1.0f, and the exact sum is 1 within 2^-25
SumsToOne(a, b) ==
  /\ FAdd(a, b) = F_1p0
  /\ ExactSum30(a, b) - Pow2(30) <= 32
  /\ Pow2(30) - ExactSum30(a, b) <= 32

IsVoltageTable(lum, sat, n, t) ==
  /\ DOMAIN lum = 1..n
  /\ DOMAIN sat = 1..n
  /\ \A j \in 1..n : lum[j] # FZero /\ sat[j] # FZero
  /\ \A j \in 1..(n \div 2) :
       /\ lum[j] = FMul(IntToFloat(j), t)
       /\ IsNearRatio(lum[j], j, n + 2)
       /\ sat[j] = lum[j]
  /\ \A j \in 1..n :
       /\ SumsToOne(lum[j], lum[n + 1 - j])
       /\ sat[j] = sat[n + 1 - j]

\* C12: after generate_voltage_tables, each of the six tables, of length n in
\* {6, 12, 18, 24, 36, 48} and with the table step 1 / (n + 2), has
\* luma[k] = (k + 1) * step and saturation[k] = luma[k] for k < n / 2,
\* luma[k] + luma[n - 1 - k] = 1 and saturation[k] = saturation[n - 1 - k] for
\* every k, in single precision; and every entry has been assigned (none is
\* the 0 the static arrays start with).
C12_VoltageTables ==
  (pc \notin {"generate_voltage_tables", "unit", "unit_done"}) =>
    \A n \in {6, 12, 18, 24, 36, 48} :
      /\ IsNearestReciprocal(TableStep(n), n + 2)
      /\ IsVoltageTable(BuiltTable(n, TRUE), BuiltTable(n, FALSE), n, TableStep(n))

\* generate_voltage_tables has just returned: the two middle entries of the
\* longest table are set, the upper one from the lower one
C12_Witness ==
  /\ pc = "read_arguments"
  /\ BuiltTable(48, TRUE)[24] = FMul(IntToFloat(24), COMPOSITE_48_TABLE_STEP)
  /\ BuiltTable(48, TRUE)[25] = FSub(F_1p0, BuiltTable(48, TRUE)[24])
  /\ BuiltTable(48, FALSE)[25] = BuiltTable(48, TRUE)[24]

\* the hue the wheel of the source starts at
WheelStart == IF G_source = SOURCE_APPROX_NES_ROTATED THEN 15 ELSE 0

\* the colours generate_palette_from_source adds before the hue loop
ColorsBeforeHues ==
  IF G_source \in {SOURCE_APPROX_NES, SOURCE_APPROX_NES_ROTATED}
  THEN 2 + S_table_length
  ELSE S_table_length

\* the hues WheelStart + a * step, a = 0 .. 360 / step - 1, are pairwise
\* distinct angles of [0, 360)
WheelCoveredOnce ==
  /\ step > 0
  /\ 360 % step = 0
  /\ \A a \in 0..((360 \div step) - 1) :
       /\ WheelStart + a * step \in 0..359
       /\ \A b \in 0..((360 \div step) - 1) :
            a # b => (WheelStart + a * step) % 360 # (WheelStart + b * step) % 360

\* C13: for every source, the hue loop of generate_palette_from_source calls
\* generate_palette_hue exactly 360 / step times, call i (from 0) with the hue
\* hueStart + i * step, hueStart being 15 for approx_nes_rotated and 0
\* otherwise; step divides 360, the hues are pairwise distinct and lie in
\* [0, 360), and no call returns through the invalid-hue or invalid-modifier
\* branch: each runs over the whole table.
C13_HueLoopCoversWheel ==
  /\ ret.generate_palette_hue = 0
  /\ call.fn # "generate_palette_hue"
  /\ pc \in {"generate_palette_greys", "hue_loop", "generate_palette_hue",
              "write_gpl_file", "write_tga_file", "free"} => WheelCoveredOnce
  /\ pc = "generate_palette_greys" => hue = WheelStart
  /\ pc = "hue_loop" =>
       /\ i \in 0..(360 \div step)
       /\ hue = (WheelStart + i * step) % 360
       /\ G_num_colors = ColorsBeforeHues + i * S_table_length
  /\ pc = "generate_palette_hue" =>
       /\ i \in 0..((360 \div step) - 1)
       /\ hue = WheelStart + i * step
       /\ hue \in 0..359
       /\ end_index = S_table_length
       /\ k \in 0..end_index
       /\ G_num_colors = ColorsBeforeHues + i * S_table_length + k
  /\ pc \in {"write_gpl_file", "write_tga_file", "free"} =>
       /\ i = 360 \div step
       /\ G_num_colors = ColorsBeforeHues + i * S_table_length

\* the rotated wheel after its 12 calls: the hue has wrapped back to 15
C13_Witness ==
  /\ pc = "hue_loop"
  /\ G_source = SOURCE_APPROX_NES_ROTATED
  /\ i = 12
  /\ hue = 15
  /\ G_num_colors = 54
  /\ ret.generate_palette_hue = 0

=============================================================================
